---- MODULE Spec2Model ----
(***************************************************************************)
(* Striping sender of src/src/sender.rs: a pool of output streams, one     *)
(* round of concurrent segment writes (batch_send), the retry loop         *)
(* (batch_send_all) and the AsyncAsyncWrite adapter (write, flush,         *)
(* shutdown).  SendStreamBuf and Segment belong to crate::send_buf and are  *)
(* modelled by their interface contract.                                   *)
(***************************************************************************)
EXTENDS Integers, Sequences, FiniteSets, TLC

MaxStreams == 3
MaxLen == 3
MaxCursor == 5

\* The caller's buffers: one of every length, each byte distinct, so that a
\* lost, repeated or misplaced byte shows in what the streams receive.
Buffers == {[i \in 1..n |-> i] : n \in 0..MaxLen}

VARIABLES
  streams,      \* Sender.streams: the pool, front first
  next,         \* Sender.next: the next-sequence cursor
  supplied,     \* the streams handed to Sender::new
  lost,         \* streams dropped by a failed write task
  call,         \* the adapter operation in progress or last returned
  pc,           \* position of the caller inside that operation
  result,       \* what the adapter operation returned
  bsa_result,   \* what batch_send_all returned to write
  data,         \* the Bytes of the current send
  send_buf,     \* SendStreamBuf: its segments with their sent flag
  segments,     \* the iterator of unsent segments of the running round
  write_tasks,  \* JoinSet: tasks still writing
  completed,    \* JoinSet: finished tasks not yet joined, in completion order
  io_errors,    \* the errors collected by the running round
  fi,           \* flush/shutdown: index of the stream visited next
  touched,      \* flush/shutdown: the streams operated on, with the outcome
  delivered,    \* segments written successfully to a stream in this call
  round_log,    \* results of the rounds (batch_send calls) of this call
  round_start,  \* pool size when the running round started
  round_ok,     \* streams returned to the pool by the running round
  round_pool,   \* the pool when the last dispatching round started
  round_unsent, \* start offsets of the segments unsent at that time
  round_tasks,  \* the tasks that round spawned, in dispatch order
  spawned,      \* tasks spawned by this call
  pool_at_call, \* the pool when the call started
  start_next,   \* the cursor when the call started
  sum_ok        \* total length of the buffers whose send succeeded

vars ==
  <<streams, next, supplied, lost, call, pc, result, bsa_result, data, send_buf,
    segments, write_tasks, completed, io_errors, fi, touched, delivered,
    round_log, round_start, round_ok, round_pool, round_unsent, round_tasks,
    spawned, pool_at_call, start_next, sum_ok>>

Pending == [kind |-> "Pending", n |-> 0]

Ret(k, n) == [kind |-> k, n |-> n]

SeqToSet(q) == {q[i] : i \in 1..Len(q)}

(***************************************************************************)
(* SendStreamBuf and Segment (crate::send_buf).  A segment is              *)
(* [start, payload, sent]: its start offset, the bytes it carries and      *)
(* whether it has been marked sent.                                        *)
(***************************************************************************)
SendStreamBufNew(d, seq) ==
  IF Len(d) = 0 THEN <<>>
  ELSE << [start |-> seq, payload |-> d, sent |-> FALSE] >>

\* The pieces of a segment cut at the offsets `cuts` (relative to its start).
RECURSIVE Pieces(_, _, _)
Pieces(seg, from, cuts) ==
  IF cuts = {}
  THEN << [start |-> seg.start + from,
           payload |-> SubSeq(seg.payload, from + 1, Len(seg.payload)),
           sent |-> FALSE] >>
  ELSE LET c == CHOOSE x \in cuts : \A y \in cuts : x <= y
       IN  << [start |-> seg.start + from,
               payload |-> SubSeq(seg.payload, from + 1, c),
               sent |-> FALSE] >>
             \o Pieces(seg, c, cuts \ {c})

\* Every way to cut `len` bytes into at most `width` contiguous pieces.
CutChoices(len, width) ==
  {c \in SUBSET (1..(len - 1)) : Cardinality(c) = 0 \/ Cardinality(c) < width}

FirstUnsent(buf) ==
  IF \E i \in 1..Len(buf) : ~buf[i].sent
  THEN CHOOSE i \in 1..Len(buf) : ~buf[i].sent /\ \A j \in 1..(i - 1) : buf[j].sent
  ELSE 0

split_first_unsent_segment(buf, cuts) ==
  LET i == FirstUnsent(buf)
  IN  IF i = 0 THEN buf
      ELSE SubSeq(buf, 1, i - 1)
             \o Pieces(buf[i], 0, cuts)
             \o SubSeq(buf, i + 1, Len(buf))

iter_unsent_segments(buf) == SelectSeq(buf, LAMBDA s : ~s.sent)

mark_as_sent(buf, seq) ==
  [i \in 1..Len(buf) |->
     IF buf[i].start = seq THEN [buf[i] EXCEPT !.sent = TRUE] ELSE buf[i]]

done(buf) == \A i \in 1..Len(buf) : buf[i].sent

(***************************************************************************)
(* Sender                                                                  *)
(***************************************************************************)
Init ==
  /\ \E n \in 0..MaxStreams :
       /\ streams = [i \in 1..n |-> i]
       /\ supplied = 1..n
  /\ next = 0
  /\ lost = {}
  /\ call = "new"
  /\ pc = "idle"
  /\ result = Pending
  /\ bsa_result = "Pending"
  /\ data = <<>>
  /\ send_buf = <<>>
  /\ segments = <<>>
  /\ write_tasks = {}
  /\ completed = <<>>
  /\ io_errors = <<>>
  /\ fi = 0
  /\ touched = <<>>
  /\ delivered = <<>>
  /\ round_log = <<>>
  /\ round_start = 0
  /\ round_ok = 0
  /\ round_pool = <<>>
  /\ round_unsent = <<>>
  /\ round_tasks = <<>>
  /\ spawned = 0
  /\ pool_at_call = <<>>
  /\ start_next = 0
  /\ sum_ok = 0

\* Per-call bookkeeping shared by the adapter's three operations.
Enter(op, d, buf, where) ==
  /\ pc = "idle"
  /\ call' = op
  /\ pc' = where
  /\ result' = Pending
  /\ bsa_result' = "Pending"
  /\ data' = d
  /\ send_buf' = buf
  /\ segments' = <<>>
  /\ io_errors' = <<>>
  /\ fi' = IF where = "fanout" THEN 1 ELSE 0
  /\ touched' = <<>>
  /\ delivered' = <<>>
  /\ round_log' = <<>>
  /\ round_start' = 0
  /\ round_ok' = 0
  /\ round_pool' = <<>>
  /\ round_unsent' = <<>>
  /\ round_tasks' = <<>>
  /\ spawned' = 0
  /\ pool_at_call' = streams
  /\ start_next' = next
  /\ UNCHANGED <<streams, next, supplied, lost, write_tasks, completed, sum_ok>>

\* batch_send_all, lines 71-73: the segment source over `d` starting at the
\* cursor `seq`, first split sized to the pool.
NewSendBuf(d, seq, cuts) ==
  split_first_unsent_segment(SendStreamBufNew(d, seq), cuts)

\* batch_send_all called directly (it is public), lines 70-73.
Call_batch_send_all ==
  \E d \in Buffers : \E cuts \in CutChoices(Len(d), Len(streams)) :
    /\ next + Len(d) <= MaxCursor
    /\ Enter("batch_send_all", d, NewSendBuf(d, next, cuts), "loop")

\* write, lines 99-103: the borrowed slice goes to batch_send_all whole.
Call_write ==
  \E d \in Buffers : \E cuts \in CutChoices(Len(d), Len(streams)) :
    /\ next + Len(d) <= MaxCursor
    /\ Enter("write", d, NewSendBuf(d, next, cuts), "loop")

Call_flush == Enter("flush", <<>>, <<>>, "fanout")

Call_shutdown == Enter("shutdown", <<>>, <<>>, "fanout")


\* Faulty variant: the stream handed to a task is left in the pool.
pop_front_keep(q) == q

\* VecDeque::pop_front / push_back on the pool, lines 39 and 56.
pop_front(q) == Tail(q)

push_back(q, s) == Append(q, s)


\* Faulty variant: the iterator of the round is not advanced.
RestSegments_stuck(segs) == segs

\* The iterator step of `for segment in segments`, line 38.
RestSegments(segs) == Tail(segs)

\* The task of lines 44-48: it owns the stream and the segment.
SpawnTask(segment, stream) ==
  [stream |-> stream, start |-> segment.start, payload |-> segment.payload]

\* Lines 64-67: the round's result once every task has been joined.
RoundResult(errs) == IF errs # <<>> THEN "Io" ELSE "Ok"


\* Faulty variant: a successful round ends the send without the done() check.
LoopAfterRound_nodone(r, buf) ==
  CASE r = "NoStreamLeft" -> "return_err"
    [] r = "Io" -> "continue"
    [] OTHER -> "return_ok"

\* Faulty variant: a round's I/O errors end the send as a failure.
LoopAfterRound_surface(r, buf) ==
  CASE r = "NoStreamLeft" -> "return_err"
    [] r = "Io" -> "return_err"
    [] OTHER -> IF done(buf) THEN "return_ok" ELSE "continue"

\* Lines 77-85: what batch_send_all does with a round's result.
LoopAfterRound(r, buf) ==
  CASE r = "NoStreamLeft" -> "return_err"
    [] r = "Io" -> "continue"
    [] OTHER -> IF done(buf) THEN "return_ok" ELSE "continue"


\* Faulty variant: the cursor is set to the buffer's length.
AdvanceCursor_reset(n, data_len) == data_len

\* Line 83.
AdvanceCursor(n, data_len) == n + data_len


\* Faulty variant: the error of batch_send_all is dropped.
WriteResult_ignore(r, buf) == Ret("Ok", Len(buf))

\* Lines 103-107: the adapter's mapping of batch_send_all's outcome.
WriteResult(r, buf) ==
  IF r = "NoStreamLeft" THEN Ret("BrokenPipe", 0) ELSE Ret("Ok", Len(buf))

\* The caller's side of a finished round: batch_send returned `r` to the
\* loop of batch_send_all, which continues or returns (to its caller, or to
\* write, which maps the outcome).
AfterRound(r) ==
  LET step == LoopAfterRound(r, send_buf)
      out  == IF step = "return_ok" THEN "Ok" ELSE "NoStreamLeft"
  IN  /\ round_log' = Append(round_log, r)
      /\ IF step = "continue"
         THEN /\ pc' = "loop"
              /\ UNCHANGED <<result, bsa_result, next, sum_ok>>
         ELSE /\ pc' = "idle"
              /\ bsa_result' = out
              /\ result' = IF call = "write" THEN WriteResult(out, data)
                           ELSE Ret(out, 0)
              /\ next' = IF step = "return_ok"
                         THEN AdvanceCursor(next, Len(data)) ELSE next
              /\ sum_ok' = IF step = "return_ok"
                           THEN sum_ok + Len(data) ELSE sum_ok


\* Faulty variant: the empty-pool check is missing.
NoStream_never(q) == FALSE

\* Faulty variant: a round with nothing to send is refused as if the pool
\* were empty.
NoStream_idle(q) == q = <<>> \/ iter_unsent_segments(send_buf) = <<>>

\* Line 31.
NoStream(q) == q = <<>>

\* batch_send, lines 31-36: the empty-pool check, then the round's iterator.
BatchSendEnter ==
  /\ pc = "loop"
  /\ round_start' = Len(streams)
  /\ round_ok' = 0
  /\ io_errors' = <<>>
  /\ IF NoStream(streams)
     THEN /\ AfterRound("NoStreamLeft")
          /\ UNCHANGED <<segments, round_pool, round_unsent, round_tasks>>
     ELSE /\ pc' = "dispatch"
          /\ segments' = iter_unsent_segments(send_buf)
          /\ round_pool' = streams
          /\ round_unsent' = [i \in 1..Len(iter_unsent_segments(send_buf)) |->
                                 iter_unsent_segments(send_buf)[i].start]
          /\ round_tasks' = <<>>
          /\ UNCHANGED <<result, bsa_result, next, sum_ok, round_log>>
  /\ UNCHANGED <<streams, supplied, lost, call, data, send_buf, write_tasks,
                 completed, fi, touched, delivered, spawned, pool_at_call,
                 start_next>>

\* One iteration of the loop of lines 38-49.
Dispatch ==
  /\ pc = "dispatch"
  /\ segments # <<>>
  /\ streams # <<>>
  /\ streams' = pop_front(streams)
  /\ write_tasks' = write_tasks \cup {SpawnTask(Head(segments), Head(streams))}
  /\ segments' = RestSegments(segments)
  /\ spawned' = spawned + 1
  /\ round_tasks' = Append(round_tasks, SpawnTask(Head(segments), Head(streams)))
  /\ UNCHANGED <<next, supplied, lost, call, pc, result, bsa_result, data,
                 send_buf, completed, io_errors, fi, touched, delivered,
                 round_log, round_start, round_ok, round_pool, round_unsent,
                 pool_at_call, start_next, sum_ok>>

\* The loop ends: no segment left, or no stream left (line 41).
DispatchEnd ==
  /\ pc = "dispatch"
  /\ ~(segments # <<>> /\ streams # <<>>)
  /\ pc' = "join"
  /\ segments' = <<>>
  /\ UNCHANGED <<streams, next, supplied, lost, call, result, bsa_result, data,
                 send_buf, write_tasks, completed, io_errors, fi, touched,
                 delivered, round_log, round_start, round_ok, round_pool,
                 round_unsent, round_tasks, spawned,
                 pool_at_call, start_next, sum_ok>>

\* A spawned task runs to its end (lines 45-47): the write succeeds and the
\* task yields (sequence, stream), or it fails and the stream is dropped.
TaskFinish ==
  /\ pc \in {"dispatch", "join"}
  /\ \E t \in write_tasks : \E ok \in BOOLEAN :
       /\ write_tasks' = write_tasks \ {t}
       /\ completed' = Append(completed,
                              [stream |-> t.stream, start |-> t.start, ok |-> ok])
       /\ delivered' = IF ok THEN Append(delivered, t) ELSE delivered
       /\ lost' = IF ok THEN lost ELSE lost \cup {t.stream}
  /\ UNCHANGED <<streams, next, supplied, call, pc, result, bsa_result, data,
                 send_buf, segments, io_errors, fi, touched, round_log,
                 round_start, round_ok, round_pool,
                 round_unsent, round_tasks, spawned, pool_at_call, start_next,
                 sum_ok>>


\* Faulty variant: the stream is returned to the pool whatever the outcome.
JoinPool_always(q, r) == push_back(q, r.stream)

\* Faulty variant: a stream is returned only while no failure was joined.
JoinPool_shortcircuit(q, r) ==
  IF r.ok /\ io_errors = <<>> THEN push_back(q, r.stream) ELSE q

\* Lines 55-58 and 59-61: what the join loop does with one task's result.
JoinPool(q, r) == IF r.ok THEN push_back(q, r.stream) ELSE q

\* Faulty variant: a successful write is not recorded in the segment source.
JoinBuf_never(buf, r) == buf

\* Faulty variant: the segment is marked sent whatever the outcome.
JoinBuf_always(buf, r) == mark_as_sent(buf, r.start)

JoinBuf(buf, r) == IF r.ok THEN mark_as_sent(buf, r.start) ELSE buf

\* Faulty variant: only the first error of a round is kept.
JoinErrors_first(errs, r) ==
  IF r.ok \/ errs # <<>> THEN errs ELSE Append(errs, r.stream)

JoinErrors(errs, r) == IF r.ok THEN errs ELSE Append(errs, r.stream)

\* One iteration of `while let Some(task) = write_tasks.join_next().await`.
JoinNext ==
  /\ pc = "join"
  /\ completed # <<>>
  /\ completed' = Tail(completed)
  /\ streams' = JoinPool(streams, Head(completed))
  /\ send_buf' = JoinBuf(send_buf, Head(completed))
  /\ io_errors' = JoinErrors(io_errors, Head(completed))
  /\ round_ok' = IF Head(completed).ok THEN round_ok + 1 ELSE round_ok
  /\ UNCHANGED <<next, supplied, lost, call, pc, result, bsa_result, data,
                 segments, write_tasks, fi, touched, delivered, round_log,
                 round_start, round_pool, round_unsent, round_tasks, spawned,
                 pool_at_call, start_next, sum_ok>>

\* Faulty variant: the join loop ends when no finished task is waiting.
JoinSetEmpty_nowait(running, finished) == finished = <<>>

\* Line 52: join_next() yields None once the JoinSet holds no task at all.
JoinSetEmpty(running, finished) == running = {} /\ finished = <<>>

\* join_next() yields None: lines 64-67, and the caller's handling.
BatchSendReturn ==
  /\ pc = "join"
  /\ JoinSetEmpty(write_tasks, completed)
  /\ AfterRound(RoundResult(io_errors))
  /\ UNCHANGED <<streams, supplied, lost, call, data, send_buf, segments,
                 write_tasks, completed, io_errors, fi, touched, delivered,
                 round_start, round_ok, round_pool,
                 round_unsent, round_tasks, spawned, pool_at_call, start_next>>


\* Faulty variant: a failed flush or shutdown does not end the fan-out.
FanoutOutcome_continue(ok) == "next"

\* Lines 112 and 119: `?` leaves the loop on the first failure.
FanoutOutcome(ok) == IF ok THEN "next" ELSE "return_err"

\* Faulty variant: a stream whose flush or shutdown fails is dropped.
FanoutPool_drop(q, i, ok) ==
  IF ok THEN q ELSE SubSeq(q, 1, i - 1) \o SubSeq(q, i + 1, Len(q))

\* Lines 111 and 118: the loop borrows the pool's streams in place.
FanoutPool(q, i, ok) == q

\* The stream the fan-out of lines 111 and 118 visits at step i.
FanoutStream(q, i) == q[i]

\* One iteration of the loops of flush (111-113) and shutdown (118-120).
FanoutStep ==
  /\ pc = "fanout"
  /\ fi <= Len(streams)
  /\ \E ok \in BOOLEAN :
       LET s == FanoutStream(streams, fi)
       IN  /\ touched' = Append(touched, [stream |-> s, ok |-> ok])
           /\ streams' = FanoutPool(streams, fi, ok)
           /\ IF FanoutOutcome(ok) = "next"
              THEN /\ fi' = fi + 1
                   /\ UNCHANGED <<pc, result>>
              ELSE /\ pc' = "idle"
                   /\ result' = Ret("IoError", s)
                   /\ UNCHANGED fi
  /\ UNCHANGED <<next, supplied, lost, call, bsa_result, data,
                 send_buf, segments, write_tasks, completed, io_errors,
                 delivered, round_log, round_start, round_ok, round_pool,
                 round_unsent, round_tasks, spawned,
                 pool_at_call, start_next, sum_ok>>

\* Lines 114 and 121: every pooled stream was visited.
FanoutReturn ==
  /\ pc = "fanout"
  /\ fi > Len(streams)
  /\ pc' = "idle"
  /\ result' = Ret("Ok", 0)
  /\ UNCHANGED <<streams, next, supplied, lost, call, bsa_result, data,
                 send_buf, segments, write_tasks, completed, io_errors, fi,
                 touched, delivered, round_log, round_start, round_ok, round_pool,
                 round_unsent, round_tasks, spawned,
                 pool_at_call, start_next, sum_ok>>

Next ==
  \/ Call_batch_send_all
  \/ Call_write
  \/ Call_flush
  \/ Call_shutdown
  \/ BatchSendEnter
  \/ Dispatch
  \/ DispatchEnd
  \/ TaskFinish
  \/ JoinNext
  \/ BatchSendReturn
  \/ FanoutStep
  \/ FanoutReturn

Spec == Init /\ [][Next]_vars

\* The sender's own steps are taken whenever they can be (the executor polls
\* the call's future), and every spawned write task runs to its end; when
\* a caller makes a call is left open.
FairSpec ==
  /\ Spec
  /\ WF_vars(BatchSendEnter)
  /\ WF_vars(Dispatch)
  /\ WF_vars(DispatchEnd)
  /\ WF_vars(TaskFinish)
  /\ WF_vars(JoinNext)
  /\ WF_vars(BatchSendReturn)

(***************************************************************************)
(* Properties                                                              *)
(***************************************************************************)
Sends == {"write", "batch_send_all"}

Fanouts == {"flush", "shutdown"}

Last(q) == q[Len(q)]

\* batch_send_all has returned (to its caller, or to write which returned).
SendReturned == pc = "idle" /\ call \in Sends

\* No write failed during the current call.
NoWriteFailed == lost \cap SeqToSet(pool_at_call) = {}

\* The step on which batch_send_all returns.
SendReturns == pc # "idle" /\ pc' = "idle" /\ call \in Sends

\* The step on which a round (one batch_send) returns.
RoundReturns == Len(round_log') = Len(round_log) + 1

\* Every task of the running round has been joined.
RoundEnd == pc = "join" /\ write_tasks = {} /\ completed = <<>>

\* The bytes the streams received, ordered by the start offset of the write.
RECURSIVE ConcatByStart(_)
ConcatByStart(idx) ==
  IF idx = {} THEN <<>>
  ELSE LET m == CHOOSE i \in idx : \A j \in idx : delivered[i].start <= delivered[j].start
       IN  delivered[m].payload \o ConcatByStart(idx \ {m})

DeliveredDisjoint ==
  \A i, j \in 1..Len(delivered) :
    i < j => \/ delivered[i].start + Len(delivered[i].payload) <= delivered[j].start
             \/ delivered[j].start + Len(delivered[j].payload) <= delivered[i].start

DeliveredInside ==
  \A i \in 1..Len(delivered) :
    /\ start_next <= delivered[i].start
    /\ delivered[i].start + Len(delivered[i].payload) <= start_next + Len(data)

\* C1: when no write fails and the pool holds at least one stream,
\* batch_send_all returns success and the segments written to the streams,
\* ordered by start offset, are pairwise disjoint, lie inside the buffer's
\* offsets and concatenate to exactly the buffer.
C1_Completeness ==
  (SendReturned /\ pool_at_call # <<>> /\ NoWriteFailed) =>
    /\ bsa_result = "Ok"
    /\ DeliveredDisjoint
    /\ DeliveredInside
    /\ ConcatByStart(1..Len(delivered)) = data

C1_Witness ==
  /\ SendReturned /\ NoWriteFailed
  /\ Len(pool_at_call) >= 2
  /\ start_next > 0
  /\ Len(data) = MaxLen
  /\ Len(send_buf) >= 2

\* The segments of the segment source tile the buffer's offsets in order.
BufCovers ==
  /\ Len(data) = 0 <=> send_buf = <<>>
  /\ send_buf # <<>> =>
       /\ send_buf[1].start = start_next
       /\ Last(send_buf).start + Len(Last(send_buf).payload) = start_next + Len(data)
  /\ \A i \in 1..(Len(send_buf) - 1) :
       send_buf[i].start + Len(send_buf[i].payload) = send_buf[i + 1].start

\* C2: under any pattern of write failures, whenever batch_send_all returns
\* success every segment of the buffer is marked sent and was written
\* successfully to some stream, and the sent segments cover the buffer
\* without a gap.
C2_SuccessMeansAllSent ==
  (SendReturned /\ bsa_result = "Ok") =>
    /\ \A i \in 1..Len(send_buf) :
         /\ send_buf[i].sent
         /\ \E j \in 1..Len(delivered) :
              /\ delivered[j].start = send_buf[i].start
              /\ delivered[j].payload = send_buf[i].payload
    /\ BufCovers

C2_Witness ==
  /\ SendReturned /\ bsa_result = "Ok"
  /\ ~NoWriteFailed
  /\ Len(send_buf) >= 3
  /\ Len(round_log) >= 3

\* C3: batch_send_all returns success or NoStreamLeft and nothing else; a
\* round that fails with I/O errors is not returned but followed by another
\* round; NoStreamLeft is returned only by a round started on an empty pool;
\* a pool of one stream whose write fails gives an I/O-error round, then an
\* exhaustion round, then NoStreamLeft.
C3_TwoOutcomes ==
  [][ /\ SendReturns =>
           /\ bsa_result' \in {"Ok", "NoStreamLeft"}
           /\ bsa_result' = "NoStreamLeft" =>
                /\ pc = "loop" /\ streams = <<>>
                /\ Last(round_log') = "NoStreamLeft"
           /\ (Len(pool_at_call) = 1 /\ ~NoWriteFailed) =>
                /\ round_log' = <<"Io", "NoStreamLeft">>
                /\ bsa_result' = "NoStreamLeft"
      /\ (RoundReturns /\ Last(round_log') = "Io") =>
           /\ pc' = "loop"
           /\ bsa_result' = "Pending" /\ result' = Pending
      /\ (RoundReturns /\ Last(round_log') = "NoStreamLeft") =>
           /\ streams = <<>> /\ SendReturns ]_vars

C3_Witness ==
  /\ SendReturned
  /\ Len(pool_at_call) = 1
  /\ round_log = <<"Io", "NoStreamLeft">>
  /\ bsa_result = "NoStreamLeft"

\* The pool is empty and no stream is out with a task.
Exhausted == streams = <<>> /\ write_tasks = {} /\ completed = <<>>

\* C4 as stated: once the pool has size 0 it has size 0 ever after.
C4_EmptyPoolStaysEmpty == [][streams = <<>> => streams' = <<>>]_vars

\* C4, amended: once the pool is empty with no write task in flight it stays
\* so; no task is spawned and nothing is written from then on; every round
\* started from then on fails with pool exhaustion, and with it
\* batch_send_all (NoStreamLeft) and write (BrokenPipe).
C4_ExhaustionTerminal ==
  [][ Exhausted =>
        /\ Exhausted'
        /\ spawned' <= spawned
        /\ Len(delivered') <= Len(delivered)
        /\ pc = "loop" =>
             /\ RoundReturns /\ Last(round_log') = "NoStreamLeft"
             /\ pc' = "idle"
             /\ bsa_result' = "NoStreamLeft"
             /\ result' = IF call = "write" THEN Ret("BrokenPipe", 0)
                          ELSE Ret("NoStreamLeft", 0) ]_vars

C4_Witness ==
  /\ SendReturned /\ Exhausted
  /\ supplied # {}
  /\ pool_at_call = <<>>
  /\ Len(data) > 0
  /\ spawned = 0 /\ delivered = <<>>
  /\ bsa_result = "NoStreamLeft"

\* C5: write returns Ok(buf.len()) or BrokenPipe, BrokenPipe exactly when
\* batch_send_all returned NoStreamLeft; never a shorter count, never the
\* I/O error of a stream.
C5_WriteAllOrNothing ==
  (pc = "idle" /\ call = "write") =>
    /\ result \in {Ret("Ok", Len(data)), Ret("BrokenPipe", 0)}
    /\ result.kind = "BrokenPipe" <=> bsa_result = "NoStreamLeft"
    /\ result.kind = "Ok" <=> bsa_result = "Ok"

C5_Witness ==
  /\ pc = "idle" /\ call = "write"
  /\ result = Ret("BrokenPipe", 0)
  /\ delivered # <<>>
  /\ Len(delivered) < Len(send_buf)

\* C6: the cursor changes only on the step on which batch_send_all returns
\* success, and then by the buffer's length; no round changes it, nor does
\* a return of NoStreamLeft, whatever was delivered; it equals the summed
\* lengths of the buffers sent with success; the segments of a call start
\* at the cursor of the time of the call.
C6_CursorAdvance ==
  [][ /\ next' # next => (SendReturns /\ bsa_result' = "Ok")
      /\ (SendReturns /\ bsa_result' = "Ok") => next' = next + Len(data)
      /\ (SendReturns /\ bsa_result' = "NoStreamLeft") => next' = next
      /\ (RoundReturns /\ ~SendReturns) => next' = next
      /\ next' = sum_ok'
      /\ (pc = "idle" /\ pc' = "loop" /\ send_buf' # <<>>) =>
           send_buf'[1].start = next ]_vars

C6_Witness ==
  /\ SendReturned
  /\ bsa_result = "NoStreamLeft"
  /\ delivered # <<>>
  /\ next = start_next
  /\ next > 0

\* C7: flush and shutdown visit the pooled streams front to back and stop at
\* the first failure, returning it: the streams before it were operated on
\* with success, no stream after it is touched, and success is returned only
\* when every pooled stream succeeded.
C7_FanoutStopsAtFirstFailure ==
  (call \in Fanouts) =>
    /\ Len(touched) <= Len(streams)
    /\ \A i \in 1..Len(touched) : touched[i].stream = streams[i]
    /\ \A i \in 1..(Len(touched) - 1) : touched[i].ok
    /\ pc = "idle" =>
         /\ result.kind \in {"Ok", "IoError"}
         /\ result.kind = "Ok" <=>
              /\ Len(touched) = Len(streams)
              /\ \A i \in 1..Len(touched) : touched[i].ok
         /\ result.kind = "IoError" =>
              /\ ~Last(touched).ok
              /\ result.n = Last(touched).stream

C7_Witness ==
  /\ call \in Fanouts /\ pc = "idle"
  /\ Len(streams) = 3
  /\ Len(touched) = 2
  /\ result.kind = "IoError"
  /\ touched[1].ok /\ ~touched[2].ok

\* C8: the pool holds each stream at most once and only streams given to
\* new(); a stream whose write failed is never in the pool again; the pool
\* at the end of a round is no larger than at its start.
C8_PoolShrinks ==
  /\ \A i, j \in 1..Len(streams) : i # j => streams[i] # streams[j]
  /\ SeqToSet(streams) \subseteq supplied
  /\ lost \cap SeqToSet(streams) = {}
  /\ (pc \in {"dispatch", "join"} \/ round_log # <<>>) => Len(streams) <= round_start

C8_Witness ==
  /\ RoundEnd
  /\ Len(round_log) >= 1
  /\ lost \cap SeqToSet(pool_at_call) # {}
  /\ round_ok >= 1
  /\ Len(streams) < Len(pool_at_call)

\* C9 as stated: pool size after a round = size at its start - failed
\* streams + streams that succeeded and were returned.
C9_PoolSizeAsStated ==
  RoundEnd => Len(streams) = round_start - Len(io_errors) + round_ok

\* C9, amended: the pool size when batch_send returns is the size at the
\* start of the round minus the number of streams that failed (the streams
\* that succeeded fill the places they were taken from).
C9_PoolSizeAfterRound ==
  RoundEnd =>
    /\ Len(streams) = round_start - Len(io_errors)
    /\ Cardinality(lost \cap SeqToSet(pool_at_call)) >= Len(io_errors)

C9_Witness ==
  /\ RoundEnd
  /\ round_start = 3
  /\ Len(io_errors) = 1
  /\ round_ok = 1

\* Number of places that hold stream s.
InPool(s) == Cardinality({i \in 1..Len(streams) : streams[i] = s})

InTask(s) ==
  Cardinality({t \in write_tasks : t.stream = s})
    + Cardinality({i \in 1..Len(completed) : completed[i].ok /\ completed[i].stream = s})

\* C10: at every instant each stream is in exactly one place: in the pool,
\* owned by one in-flight write task, or lost; never in the pool and in
\* flight at once, never in two outstanding writes.
C10_OnePlacePerStream ==
  /\ \A s \in supplied :
       InPool(s) + InTask(s) + (IF s \in lost THEN 1 ELSE 0) = 1
  /\ \A t \in write_tasks : t.stream \in supplied

C10_Witness ==
  /\ pc = "dispatch"
  /\ Cardinality(write_tasks) = 1
  /\ Len(completed) = 2 /\ completed[1].ok /\ ~completed[2].ok
  /\ segments = <<>>
  /\ lost # {}

Min(a, b) == IF a <= b THEN a ELSE b

\* C11: a round started on a non-empty pool dispatches exactly
\* min(pool size at round start, unsent segments) segments, the i-th unsent
\* segment on the i-th stream of the pool as it was at round start, each on
\* a stream of its own; never more than the pool size at round start.
C11_DispatchCount ==
  (pc \in {"dispatch", "join"}) =>
    /\ round_start = Len(round_pool) /\ round_start >= 1
    /\ Len(round_tasks) <= Min(round_start, Len(round_unsent))
    /\ pc = "join" => Len(round_tasks) = Min(round_start, Len(round_unsent))
    /\ \A i \in 1..Len(round_tasks) :
         /\ round_tasks[i].stream = round_pool[i]
         /\ round_tasks[i].start = round_unsent[i]
    /\ \A i, j \in 1..Len(round_tasks) :
         i # j => round_tasks[i].stream # round_tasks[j].stream

C11_Witness ==
  /\ pc = "join"
  /\ Len(round_pool) = 1
  /\ Len(round_unsent) = 2
  /\ Len(round_tasks) = 1
  /\ round_pool # pool_at_call

\* A dispatching round has returned and no later round has started.
RoundReturned ==
  /\ call \in Sends /\ pc \in {"loop", "idle"}
  /\ round_log # <<>> /\ Last(round_log) # "NoStreamLeft"

\* The tasks of the last round whose write failed.
FailedTasks == {i \in 1..Len(round_tasks) : round_tasks[i].stream \in lost}

SentStarts == {send_buf[i].start : i \in {j \in 1..Len(send_buf) : send_buf[j].sent}}

\* C12: a round reports the aggregated I/O error exactly when one of its
\* tasks failed, with one entry per failed task, and only once every task
\* has completed and been reconciled: when batch_send returns, whatever its
\* result, the stream of every task that succeeded is back in the pool and
\* its segment is marked sent.
C12_ErrorsAfterReconcile ==
  RoundReturned =>
    /\ write_tasks = {} /\ completed = <<>>
    /\ Last(round_log) = "Io" <=> FailedTasks # {}
    /\ Len(io_errors) = Cardinality(FailedTasks)
    /\ \A i \in 1..Len(round_tasks) :
         i \notin FailedTasks =>
           /\ round_tasks[i].stream \in SeqToSet(streams)
           /\ round_tasks[i].start \in SentStarts
           /\ \E j \in 1..Len(delivered) : delivered[j] = round_tasks[i]

C12_Witness ==
  /\ RoundReturned
  /\ Last(round_log) = "Io"
  /\ Len(io_errors) = 2
  /\ round_ok = 1
  /\ Len(round_tasks) = 3

\* The step that spawns a task, and the step that joins a failed one.
Spawns == Len(round_tasks') = Len(round_tasks) + 1

JoinsFailure ==
  pc = "join" /\ completed # <<>> /\ completed' = Tail(completed)
    /\ ~Head(completed).ok

\* What C13 says of a round's steps, whether or not a stream survives.
C13_Steps ==
  /\ pc # "idle" =>
       \A i \in 1..Len(send_buf) : send_buf[i].sent => send_buf'[i].sent
  /\ Spawns =>
       /\ Last(round_tasks').start \notin SentStarts
       /\ Last(round_tasks').stream \notin lost
  /\ \A i, j \in 1..Len(delivered') :
       i # j => delivered'[i].start # delivered'[j].start
  /\ JoinsFailure => Head(completed).start \notin SentStarts'
  /\ (pc = "loop" /\ pc' = "dispatch") =>
       \A i \in 1..Len(send_buf) :
         ~send_buf[i].sent => send_buf[i].start \in SeqToSet(round_unsent')
  /\ (SendReturns /\ bsa_result' = "Ok") =>
       \A i \in 1..Len(send_buf) :
         Cardinality({j \in 1..Len(delivered) :
                        delivered[j].start = send_buf[i].start}) = 1

\* C13 as stated: a segment whose write failed is dispatched again in a
\* later round, so that when batch_send_all returns no segment is left whose
\* last write failed.
C13_FailedAlwaysRedispatched ==
  [][ /\ C13_Steps
      /\ SendReturns => FailedTasks' = {} ]_vars

\* C13, amended: within one batch_send_all a segment marked sent is never
\* dispatched again and the sent segments only grow; a segment whose write
\* failed stays unsent and is offered to every later round that finds a
\* stream in the pool, never on a lost stream; every segment has at most
\* one successful write, exactly one when the call succeeds; when no stream
\* survives the failed segment is not dispatched again and the call returns
\* NoStreamLeft.
C13_NoResendRetryFailed ==
  [][ /\ C13_Steps
      /\ (SendReturns /\ FailedTasks' # {}) =>
           /\ bsa_result' = "NoStreamLeft"
           /\ streams = <<>> ]_vars

C13_Witness ==
  /\ SendReturned /\ bsa_result = "Ok"
  /\ ~NoWriteFailed
  /\ Len(round_log) >= 2 /\ round_log[1] = "Io"
  /\ Len(send_buf) >= 2
  /\ Len(delivered) = Len(send_buf)

\* A round that did not end the call has marked a segment sent or has lost
\* a stream for good.
RoundProgress ==
  \/ Cardinality(SentStarts') > Len(send_buf) - Len(round_unsent)
  \/ /\ Len(streams') < Len(round_pool)
     /\ lost' \cap SeqToSet(round_pool) # {}

\* C14: when every spawned write task completes, every call of
\* batch_send_all returns, whatever the buffer, the pool and the failures:
\* each round that does not end the call marks at least one more segment
\* sent or removes at least one stream for good.
C14_SendTerminates ==
  /\ (call \in Sends /\ pc # "idle") ~> (pc = "idle")
  /\ [][(RoundReturns /\ pc' = "loop") => RoundProgress]_vars

C14_Witness ==
  /\ SendReturned
  /\ Len(round_log) >= 4
  /\ Len(pool_at_call) = MaxStreams

\* Segments marked sent by the last round.
SentByRound == Cardinality(SentStarts) - (Len(send_buf) - Len(round_unsent))

\* C15 as stated: in every round in which exactly one stream fails, at
\* least one previously unsent segment becomes sent.
C15_OneFailureStillSends ==
  (RoundReturned /\ Len(io_errors) = 1) => SentByRound >= 1

\* C15, amended: a round in which exactly one stream fails marks one
\* segment sent for each of its other tasks, so at least one when it
\* dispatched two or more segments; a round that dispatched a single
\* segment whose write fails marks nothing sent and only loses that stream.
C15_OneFailureProgress ==
  (RoundReturned /\ Len(io_errors) = 1) =>
    /\ SentByRound = Len(round_tasks) - 1
    /\ Len(round_tasks) >= 2 => SentByRound >= 1
    /\ Len(round_tasks) = 1 => (SentByRound = 0 /\ Len(streams) = Len(round_pool) - 1)

C15_Witness ==
  /\ RoundReturned /\ Len(io_errors) = 1
  /\ Len(round_tasks) = 2
  /\ SentByRound = 1
  /\ pc = "loop"

\* The segments (by start offset) that have a task in the JoinSet.
InFlightStarts ==
  {t.start : t \in write_tasks} \cup {completed[i].start : i \in 1..Len(completed)}

\* The first round of a send has spawned its tasks and joined none yet.
FirstRoundSpawned ==
  /\ call \in Sends /\ pc = "join" /\ round_log = <<>>
  /\ round_ok = 0 /\ io_errors = <<>>

\* C16: on a pool of N >= 1 streams with no failed write and an initial
\* split of at most N segments, batch_send_all takes exactly one round: every
\* segment has its task in the JoinSet before the first is joined, the
\* buffer is complete after the round, the pool holds the same N streams
\* and the cursor has advanced by the buffer's length.
C16_OneRound ==
  /\ (FirstRoundSpawned /\ Len(send_buf) <= Len(pool_at_call)) =>
       /\ InFlightStarts = {send_buf[i].start : i \in 1..Len(send_buf)}
       /\ Cardinality(write_tasks) + Len(completed) = Len(send_buf)
  /\ (/\ SendReturned /\ NoWriteFailed
      /\ pool_at_call # <<>>
      /\ Len(send_buf) <= Len(pool_at_call)) =>
       /\ round_log = <<"Ok">>
       /\ Len(round_tasks) = Len(send_buf)
       /\ done(send_buf)
       /\ bsa_result = "Ok"
       /\ SeqToSet(streams) = SeqToSet(pool_at_call)
       /\ Len(streams) = Len(pool_at_call)
       /\ next = AdvanceCursor(start_next, Len(data))

C16_Witness ==
  /\ SendReturned /\ NoWriteFailed
  /\ Len(pool_at_call) = MaxStreams
  /\ Len(send_buf) = MaxStreams
  /\ round_log = <<"Ok">>
  /\ streams # pool_at_call
  /\ next = start_next + MaxLen

\* C17: a round of batch_send_all that finds no unsent segment (an empty
\* buffer) on a non-empty pool spawns no task, returns Ok, and the call
\* reaches the done() check and returns successfully, the pool untouched.
C17_IdleRoundSucceeds ==
  /\ (call \in Sends /\ pc \in {"dispatch", "join"} /\ round_unsent = <<>>) =>
       (write_tasks = {} /\ completed = <<>> /\ round_tasks = <<>>)
  /\ (SendReturned /\ pool_at_call # <<>> /\ data = <<>>) =>
       /\ round_log = <<"Ok">>
       /\ round_unsent = <<>> /\ round_tasks = <<>>
       /\ spawned = 0
       /\ bsa_result = "Ok"
       /\ result.kind = "Ok"
       /\ streams = pool_at_call
       /\ next = start_next

C17_Witness ==
  /\ SendReturned /\ data = <<>>
  /\ Len(pool_at_call) >= 2
  /\ round_log = <<"Ok">> /\ round_unsent = <<>>
  /\ call = "write" /\ result = Ret("Ok", 0)

\* C18: whenever batch_send (back in the loop of batch_send_all),
\* batch_send_all or write has returned, with success or with an error, the
\* JoinSet is empty: every task the call spawned has completed and has been
\* joined, so none can still read the caller's buffer.
C18_NoTaskAtReturn ==
  (pc \notin {"dispatch", "join"}) =>
    /\ write_tasks = {} /\ completed = <<>>
    /\ call \in Sends =>
         \A i \in 1..Len(round_tasks) :
           \/ round_tasks[i].stream \in lost
           \/ \E j \in 1..Len(delivered) : delivered[j] = round_tasks[i]

C18_Witness ==
  /\ pc = "idle" /\ call = "write"
  /\ result.kind = "BrokenPipe"
  /\ spawned >= MaxStreams
  /\ write_tasks = {} /\ completed = <<>>

\* A flush or shutdown has returned the failure of a stream.
FanoutFailed == pc = "idle" /\ call \in Fanouts /\ result.kind = "IoError"

\* C19: flush and shutdown leave the pool (members and order) and the
\* cursor as they found them, at every step and at the return, on success
\* and on failure; on an empty pool they return Ok without touching a
\* stream; a stream whose flush or shutdown failed stays in the pool, and it
\* is in the pool the next send dispatches from.
C19_FanoutFrame ==
  /\ [](call \in Fanouts =>
          /\ streams = pool_at_call
          /\ next = start_next
          /\ write_tasks = {} /\ completed = <<>>
          /\ (pc = "idle" /\ pool_at_call = <<>>) =>
               (result = Ret("Ok", 0) /\ touched = <<>>)
          /\ FanoutFailed =>
               (Last(touched).stream \in SeqToSet(streams) /\ ~Last(touched).ok))
  /\ [][(FanoutFailed /\ call' \in Sends) =>
          Last(touched).stream \in SeqToSet(pool_at_call')]_vars

C19_Witness ==
  /\ FanoutFailed
  /\ Len(touched) = 2
  /\ Len(streams) = MaxStreams
  /\ streams # <<1, 2, 3>>
  /\ next > 0

\* The streams and the segments of the tasks of the last round that failed
\* or succeeded: the choice of which writes fail, whatever the order.
FailedStreams == {round_tasks[i].stream : i \in FailedTasks}

OkStarts == {round_tasks[i].start : i \in (1..Len(round_tasks)) \ FailedTasks}

\* C20: when a round has joined all its tasks, the set of streams in the
\* pool, the set of segments marked sent and the outcome are determined by
\* the pool and the unsent segments at the start of the round and by which
\* writes failed, whatever the order in which the tasks completed; the
\* streams that were not dispatched keep their place at the front, and only
\* the order of the returned streams behind them is left open.
C20_OrderIndependent ==
  RoundEnd =>
    LET k == Len(round_tasks)
        n == Len(round_pool)
    IN  /\ SeqToSet(streams) = SeqToSet(round_pool) \ FailedStreams
        /\ Len(streams) = n - Cardinality(FailedStreams)
        /\ SentStarts =
             ({send_buf[i].start : i \in 1..Len(send_buf)} \ SeqToSet(round_unsent))
               \cup OkStarts
        /\ RoundResult(io_errors) = IF FailedStreams = {} THEN "Ok" ELSE "Io"
        /\ SeqToSet(io_errors) = FailedStreams
        /\ SubSeq(streams, 1, n - k) = SubSeq(round_pool, k + 1, n)

C20_Witness ==
  /\ RoundEnd
  /\ round_pool = <<1, 2, 3>>
  /\ Len(round_tasks) = 3
  /\ FailedStreams = {2}
  /\ streams = <<3, 1>>

====
